---------------------------- MODULE Spec2Model ----------------------------
(***************************************************************************)
(* Model of app.py (Villa 5 & 6 project manager): the Google-Sheets table  *)
(* as the remote store, load_data() behind st.cache_data(ttl=300),         *)
(* save_data() as sheet.clear() followed by sheet.update(), and main() as  *)
(* one script run per session: sidebar, load and filter, then at most one  *)
(* button (Refresh, Update Progress, Update Cost).  Streamlit runs every   *)
(* session's script in its own thread, so runs of different sessions       *)
(* interleave at the calls to the cache and to the sheet.                  *)
(***************************************************************************)
EXTENDS Integers, Sequences, FiniteSets, TLC

(***************************************************************************)
(* Bounds of the model.                                                    *)
(***************************************************************************)
\* script runs started, over all sessions
MaxRuns == 2
\* failures the environment injects into calls to the sheet
MaxFaults == 1
\* seconds the clock advances in one Tick
TickStep == 150

\* st.cache_data(ttl=300)
TTL == 300

Sessions == {"A", "B"}

(***************************************************************************)
(* Text.  A PROGRESS cell is a sequence of one-character strings, so that  *)
(* rstrip('%'), float() and str() are computed, not assumed.               *)
(***************************************************************************)
Digits == <<"0", "1", "2", "3", "4", "5", "6", "7", "8", "9">>

IsDigit(c) == \E d \in 1..10 : Digits[d] = c

DigitVal(c) == (CHOOSE d \in 1..10 : Digits[d] = c) - 1

AllDigits(s) == \A i \in 1..Len(s) : IsDigit(s[i])

RECURSIVE StrToNat(_)
StrToNat(s) ==
    IF Len(s) = 0 THEN 0
    ELSE 10 * StrToNat(SubSeq(s, 1, Len(s) - 1)) + DigitVal(s[Len(s)])

RECURSIVE NatToStr(_)
NatToStr(n) ==
    IF n < 10 THEN <<Digits[n + 1]>>
    ELSE NatToStr(n \div 10) \o <<Digits[(n % 10) + 1]>>

\* str.rstrip('%'): every trailing percent sign goes
RECURSIVE RStripPct(_)
RStripPct(s) ==
    IF Len(s) > 0 /\ s[Len(s)] = "%" THEN RStripPct(SubSeq(s, 1, Len(s) - 1))
    ELSE s

\* float values: a whole number, NaN, or the ValueError float() raises
Num(n) == [k |-> "num", v |-> n]
NaN == [k |-> "nan", v |-> 0]
ValueError == [k |-> "err", v |-> 0]

\* position of the first "." of s, 0 when there is none
DotPos(s) ==
    IF \E i \in 1..Len(s) : s[i] = "."
    THEN CHOOSE i \in 1..Len(s) : s[i] = "." /\ \A j \in 1..(i - 1) : s[j] # "."
    ELSE 0

\* float(s) on the texts the sheet holds here: digits, digits "." zeros,
\* "nan"; anything else (the empty string included) raises ValueError
ParseFloat(s) ==
    LET d == DotPos(s)
        whole == IF d = 0 THEN s ELSE SubSeq(s, 1, d - 1)
        frac == IF d = 0 THEN <<>> ELSE SubSeq(s, d + 1, Len(s))
    IN  IF s = <<"n", "a", "n">> THEN NaN
        ELSE IF d = 0 /\ Len(s) > 0 /\ AllDigits(s) THEN Num(StrToNat(s))
        ELSE IF d > 0 /\ Len(whole) > 0 /\ AllDigits(whole)
                /\ \A i \in 1..Len(frac) : frac[i] = "0"
             THEN Num(StrToNat(whole))
        ELSE ValueError

\* FormatFloat under a locale with a decimal comma: "45,0"
FormatFloatComma(x) ==
    IF x.k = "nan" THEN <<"n", "a", "n">>
    ELSE NatToStr(x.v) \o <<",", "0">>

\* str(x) of a float64 cell: "45.0", "nan"
FormatFloat(x) ==
    IF x.k = "nan" THEN <<"n", "a", "n">>
    ELSE NatToStr(x.v) \o <<".", "0">>

\* f"{new_progress}%" of the slider's int
FormatInt(n) == NatToStr(n) \o <<"%">>

(***************************************************************************)
(* Dates.  A START_DATE cell is <<day, month, year>> as written in the     *)
(* sheet; pd.to_datetime(format='%d/%m/%Y', errors='coerce') gives the     *)
(* date, or NaT when the cell is no calendar date.                         *)
(***************************************************************************)
NaT == <<0, 0, 0>>

DaysIn(m, y) ==
    IF m \in {4, 6, 9, 11} THEN 30
    ELSE IF m = 2 THEN (IF y % 4 = 0 /\ (y % 100 # 0 \/ y % 400 = 0) THEN 29 ELSE 28)
    ELSE 31

ParseDate(t) ==
    IF t[2] \in 1..12 /\ t[1] >= 1 /\ t[1] <= DaysIn(t[2], t[3]) THEN t ELSE NaT

(***************************************************************************)
(* Rows.  A raw row is what get_all_records() returns for one sheet row;   *)
(* a frame row is a raw row with the columns load_data adds.               *)
(***************************************************************************)
RawRow(id, proj, type, prog, status, prio, cost, date) ==
    [TASK_ID |-> id, PROJECT |-> proj, TYPE |-> type, PROGRESS |-> prog,
     STATUS |-> status, PRIORITY |-> prio, ACTUAL_COST |-> cost,
     START_DATE |-> date]

\* load_data: the cleaning step for one row
ParseRow(r) ==
    [TASK_ID |-> r.TASK_ID, PROJECT |-> r.PROJECT, TYPE |-> r.TYPE,
     PROGRESS |-> r.PROGRESS, STATUS |-> r.STATUS, PRIORITY |-> r.PRIORITY,
     ACTUAL_COST |-> r.ACTUAL_COST, START_DATE |-> r.START_DATE,
     PROGRESS_NUM |-> ParseFloat(RStripPct(r.PROGRESS)),
     START |-> ParseDate(r.START_DATE)]

\* save_data: PROGRESS rewritten from PROGRESS_NUM, the added columns dropped
UploadRow(f) ==
    [TASK_ID |-> f.TASK_ID, PROJECT |-> f.PROJECT, TYPE |-> f.TYPE,
     PROGRESS |-> FormatFloat(f.PROGRESS_NUM) \o <<"%">>,
     STATUS |-> f.STATUS, PRIORITY |-> f.PRIORITY,
     ACTUAL_COST |-> f.ACTUAL_COST, START_DATE |-> f.START_DATE]

MapSeq(F(_), s) == [i \in 1..Len(s) |-> F(s[i])]

\* pd.DataFrame() and the frame of a table with no data rows
EmptyFrame == <<>>

\* the body of load_data once the sheet has answered with `rows`:
\* astype(float) raises on the first malformed PROGRESS and the except
\* clause returns an empty frame
ParseTable(rows) ==
    IF \E i \in 1..Len(rows) : ParseFloat(RStripPct(rows[i].PROGRESS)) = ValueError
    THEN EmptyFrame
    ELSE MapSeq(ParseRow, rows)


(***************************************************************************)
(* The sheets the runs start from.                                         *)
(***************************************************************************)
P50 == <<"5", "0", "%">>
P100 == <<"1", "0", "0", "%">>
P0 == <<"0", "%">>
PBad == <<"a", "b", "c">>

\* two tasks of two projects
SheetTwo ==
    << RawRow("T1", "Villa 5", "Structure", P50, "In Progress", "High", 1000, <<15, 1, 2025>>),
       RawRow("T2", "Villa 6", "Finish", P100, "Complete", "Low", 2000, <<31, 2, 2025>>) >>

\* TASK_ID is not a key of the sheet: two rows carry T1
SheetDuplicate ==
    << RawRow("T1", "Villa 5", "Structure", P50, "In Progress", "High", 1000, <<15, 1, 2025>>),
       RawRow("T1", "Villa 6", "Structure", P100, "Complete", "Low", 2000, <<1, 3, 2025>>) >>

\* one PROGRESS cell is not a percentage
SheetMalformed ==
    << RawRow("T1", "Villa 5", "Structure", P50, "In Progress", "High", 1000, <<15, 1, 2025>>),
       RawRow("T2", "Villa 6", "Structure", PBad, "Not Started", "Low", 0, <<1, 3, 2025>>) >>

Sheets == {SheetTwo, SheetMalformed}

\* three tasks: High and open, Low and Complete, Critical and not started
SheetCritical ==
    << RawRow("T1", "Villa 5", "Structure", P50, "In Progress", "High", 1000, <<15, 1, 2025>>),
       RawRow("T2", "Villa 5", "Finish", P100, "Complete", "Low", 2000, <<1, 2, 2025>>),
       RawRow("T3", "Villa 6", "Structure", P0, "Not Started", "Critical", 0, <<1, 3, 2025>>) >>

\* one task, Critical and Complete
SheetDone ==
    << RawRow("T1", "Villa 5", "Structure", P100, "Complete", "Critical", 3000, <<15, 1, 2025>>) >>

\* the sheets the single-user runs start from
SingleSheets == {SheetTwo, SheetDuplicate, SheetCritical, SheetDone}

\* the user of the single-user runs
User == "A"

\* the slider (0..100 step 5) and the number input (step 1000), sampled
ProgressChoices == {0, 50, 100}
CostChoices == {5000}

Roles == {"Project Manager", "Site Manager", "Purchaser", "Assistant", "Client"}
ProgressRoles == {"Project Manager", "Site Manager", "Assistant"}
CostRoles == {"Project Manager", "Purchaser", "Assistant"}

(***************************************************************************)
(* State.                                                                  *)
(***************************************************************************)
VARIABLES
    store,   \* the sheet: [hdr, rows]
    cache,   \* st.cache_data's entry for load_data: [valid, val, age]
    conn,    \* st.cache_resource's entry for the client: "unset", "ok", "none"
    sess,    \* per session: position of its script run and the run's locals
    runs,    \* script runs started
    faults,  \* failures injected so far
    persisted, \* history: the rows of the last sheet.update() that returned
    saveFailed, \* history: a save_data has returned False since then
    ev       \* the step just taken, when it ended a load or a save:
             \* [op, s, hit (served from the cache), lost (see Overwrites)]

vars == <<store, cache, conn, sess, runs, faults, persisted, saveFailed, ev>>

\* sheet.clear() leaves no header and no rows
ClearedSheet == [hdr |-> FALSE, rows |-> <<>>]

\* st.cache_data.clear()
ClearedCache == [valid |-> FALSE, val |-> EmptyFrame, age |-> 0]

NoFilter == [def |-> FALSE, project |-> "All", types |-> {}, statuses |-> {}]

NoRequest == [op |-> "none", task |-> "None", val |-> 0]

\* pc: "idle" (no run), "rerun" (st.rerun() pending), "main" (sidebar done),
\* "ready" (lines 264-274 done, a button may act), "clearing" (save_data is
\* between sheet.clear() and sheet.update()).  loaded is the frame line 264
\* got, df the local df, pre the sheet's rows when save_data began, req the
\* button and its inputs, lf whether the sidebar's load_data ran into a
\* connection error.
IdleSession ==
    [pc |-> "idle", filter |-> NoFilter, loaded |-> EmptyFrame,
     df |-> EmptyFrame, pre |-> <<>>, req |-> NoRequest, lf |-> FALSE]

Event(op, s, hit) == [op |-> op, s |-> s, hit |-> hit, lost |-> FALSE]

\* the steps no property needs to tell apart
Quiet == Event("step", "A", FALSE)

Init ==
    /\ store \in {[hdr |-> TRUE, rows |-> r] : r \in Sheets}
    /\ cache = ClearedCache
    /\ conn = "unset"
    /\ sess = [s \in Sessions |-> IdleSession]
    /\ runs = 0
    /\ faults = 0
    /\ persisted = store.rows
    /\ saveFailed = FALSE
    /\ ev = Quiet

(***************************************************************************)
(* load_data() behind st.cache_data(ttl=300).                              *)
(***************************************************************************)
\* CacheFresh with the bound included: an entry of age TTL is still served
CacheFreshInclusive == cache.valid /\ cache.age <= TTL

\* a cached value younger than the TTL is served
CacheFresh == cache.valid /\ cache.age < TTL

\* the body of load_data on a miss: r is what it returns
LoadFromSheet(r) ==
    \/ \* the client is there (or is made now) and the sheet answers
       /\ conn \in {"unset", "ok"}
       /\ conn' = "ok"
       /\ r = ParseTable(store.rows)
       /\ UNCHANGED faults
    \/ \* open_by_url or get_all_records raises: except returns pd.DataFrame()
       /\ conn \in {"unset", "ok"}
       /\ faults < MaxFaults
       /\ conn' = "ok"
       /\ faults' = faults + 1
       /\ r = EmptyFrame
    \/ \* get_google_sheet_connection fails: None is cached as the resource
       /\ conn = "unset"
       /\ faults < MaxFaults
       /\ conn' = "none"
       /\ faults' = faults + 1
       /\ r = EmptyFrame
    \/ \* `if not client: return pd.DataFrame()`
       /\ conn = "none"
       /\ r = EmptyFrame
       /\ UNCHANGED <<conn, faults>>

\* load_data(): r is the frame the caller gets (a copy of the cached value)
LoadData(r) ==
    IF CacheFresh
    THEN /\ r = cache.val
         /\ UNCHANGED <<cache, conn, faults>>
    ELSE /\ LoadFromSheet(r)
         /\ cache' = [valid |-> TRUE, val |-> r, age |-> 0]

\* the frames load_data can return in the current state
Loadable == {cache.val, ParseTable(store.rows), EmptyFrame}

(***************************************************************************)
(* Filters (sidebar and lines 270-274).                                    *)
(***************************************************************************)
Column(df, c) == {df[i][c] : i \in 1..Len(df)}

\* df[mask]: the rows satisfying Keep, in order
SelectRows(df, Keep(_)) ==
    LET RECURSIVE Sel(_)
        Sel(d) ==
            IF Len(d) = 0 THEN <<>>
            ELSE IF Keep(Head(d)) THEN <<Head(d)>> \o Sel(Tail(d))
            ELSE Sel(Tail(d))
    IN  Sel(df)

ByProject(df, p) ==
    LET Keep(r) == r.PROJECT = p IN SelectRows(df, Keep)

ByType(df, ts) ==
    LET Keep(r) == r.TYPE \in ts IN SelectRows(df, Keep)

\* ByStatus cut to the first row it selects
ByStatusFirst(df, ss) ==
    LET Keep(r) == r.STATUS \in ss
        sel == SelectRows(df, Keep)
    IN  IF Len(sel) = 0 THEN sel ELSE <<Head(sel)>>

ByStatus(df, ss) ==
    LET Keep(r) == r.STATUS \in ss IN SelectRows(df, Keep)

\* lines 270-274
ApplyFilters(df, f) ==
    LET d1 == IF f.project # "All" THEN ByProject(df, f.project) ELSE df
    IN  ByStatus(ByType(d1, f.types), f.statuses)

Filter(p, ts, ss) == [def |-> TRUE, project |-> p, types |-> ts, statuses |-> ss]

\* every value the three sidebar widgets can return for the frame df
AllFilterChoices(df) ==
    { Filter(p, ts, ss) :
        p \in {"All"} \cup Column(df, "PROJECT"),
        ts \in SUBSET Column(df, "TYPE"),
        ss \in SUBSET Column(df, "STATUS") }

\* the widget values the runs are explored with: the defaults (nothing
\* filtered), one project, no status selected
FilterChoices(df) ==
    LET types == Column(df, "TYPE")
        statuses == Column(df, "STATUS")
    IN  {Filter("All", types, statuses), Filter("All", types, {})}
        \cup {Filter(p, types, statuses) : p \in Column(df, "PROJECT")}


(***************************************************************************)
(* The two mutations (lines 345-351 and 376).                              *)
(***************************************************************************)
\* DeriveStatus with a third branch: progress 0 resets the status
DeriveStatusDowngrade(p, old) ==
    IF p = 100 THEN "Complete" ELSE IF p > 0 THEN "In Progress" ELSE "Not Started"

\* lines 348-351
DeriveStatus(p, old) ==
    IF p = 100 THEN "Complete" ELSE IF p > 0 THEN "In Progress" ELSE old

\* SetProgress without line 346: the text column keeps its old value
SetProgressNumOnly(df, task, p) ==
    [i \in 1..Len(df) |->
        IF df[i].TASK_ID = task
        THEN [df[i] EXCEPT !.PROGRESS_NUM = Num(p), !.STATUS = DeriveStatus(p, @)]
        ELSE df[i]]

\* df.loc[df['TASK_ID'] == task, ...] = ...: every row the mask selects
SetProgress(df, task, p) ==
    [i \in 1..Len(df) |->
        IF df[i].TASK_ID = task
        THEN [df[i] EXCEPT !.PROGRESS_NUM = Num(p),
                           !.PROGRESS = FormatInt(p),
                           !.STATUS = DeriveStatus(p, @)]
        ELSE df[i]]

\* SetCost that also marks the task as started
SetCostAndStatus(df, task, c) ==
    [i \in 1..Len(df) |->
        IF df[i].TASK_ID = task
        THEN [df[i] EXCEPT !.ACTUAL_COST = c, !.STATUS = "In Progress"]
        ELSE df[i]]

\* line 376
SetCost(df, task, c) ==
    [i \in 1..Len(df) |->
        IF df[i].TASK_ID = task THEN [df[i] EXCEPT !.ACTUAL_COST = c] ELSE df[i]]

\* st.selectbox over df['TASK_ID'].tolist(): one of the options, None when
\* there is none
SelectOptions(df) == IF Len(df) = 0 THEN {"None"} ELSE Column(df, "TASK_ID")

\* the rows sheet.update() writes under the header
UploadTable(df) == MapSeq(UploadRow, df)

(***************************************************************************)
(* Steps of a script run of session s.                                     *)
(***************************************************************************)
\* the cache left as it is
CacheKept == cache

\* line 233, lines 355 and 380: st.cache_data.clear()
CacheAfterRefresh == ClearedCache
CacheAfterSave == ClearedCache

\* a load_data call that is not served from the cache ends in a connection
\* error: a failure is injected, or the cached client is None
ConnectionError == faults' # faults \/ (~CacheFresh /\ conn' = "none")

\* lines 232-234: the Refresh button
Refresh(s) ==
    /\ sess[s].pc = "idle"
    /\ runs < MaxRuns
    /\ cache' = CacheAfterRefresh
    /\ sess' = [sess EXCEPT ![s] = [IdleSession EXCEPT !.pc = "rerun"]]
    /\ ev' = Quiet
    /\ UNCHANGED <<store, conn, runs, faults, persisted, saveFailed>>

\* lines 218-258: the sidebar, with the first load_data()
Sidebar(s) ==
    /\ sess[s].pc \in {"idle", "rerun"}
    /\ runs < MaxRuns
    /\ runs' = runs + 1
    /\ \E r \in Loadable :
        /\ LoadData(r)
        /\ \E f \in (IF Len(r) = 0 THEN {NoFilter} ELSE FilterChoices(r)) :
            sess' = [sess EXCEPT ![s] = [IdleSession EXCEPT !.pc = "main", !.filter = f,
                                                            !.lf = ConnectionError]]
    /\ ev' = Quiet
    /\ UNCHANGED <<store, persisted, saveFailed>>

\* lines 264-274: the second load_data(), st.stop() on an empty frame, the
\* filters; project_filter is unbound when the sidebar's frame was empty
Main(s) ==
    /\ sess[s].pc = "main"
    /\ \E r \in Loadable :
        /\ LoadData(r)
        /\ IF Len(r) = 0
           THEN /\ sess' = [sess EXCEPT ![s] = IdleSession]
                /\ ev' = Event("stop", s, CacheFresh)
           ELSE IF ~sess[s].filter.def
           THEN /\ sess' = [sess EXCEPT ![s] = IdleSession]
                /\ ev' = Event("name_error", s, CacheFresh)
           ELSE /\ sess' = [sess EXCEPT ![s].pc = "ready",
                                        ![s].loaded = r,
                                        ![s].df = ApplyFilters(r, sess[s].filter)]
                /\ ev' = Event("view", s, CacheFresh)
    /\ UNCHANGED <<store, runs, persisted, saveFailed>>

\* the run renders and ends: no button was pressed
Render(s) ==
    /\ sess[s].pc = "ready"
    /\ sess' = [sess EXCEPT ![s] = IdleSession]
    /\ ev' = Quiet
    /\ UNCHANGED <<store, cache, conn, runs, faults, persisted, saveFailed>>

\* save_data returns False before the sheet is touched; the run ends with
\* the error shown and its mutated frame is dropped
SaveRefused(s) ==
    /\ \/ \* `if not client: return False`
          /\ conn = "none"
          /\ UNCHANGED faults
       \/ \* open_by_url or sheet.clear() raises: the sheet is as it was
          /\ conn # "none"
          /\ faults < MaxFaults
          /\ faults' = faults + 1
    /\ sess' = [sess EXCEPT ![s] = IdleSession]
    /\ ev' = Event("save_failed", s, FALSE)
    /\ saveFailed' = TRUE
    /\ UNCHANGED store

\* save_data(df) up to and including a sheet.clear() that returns
SaveClears(s, df, req) ==
    /\ conn # "none"
    /\ store' = ClearedSheet
    /\ sess' = [sess EXCEPT ![s].pc = "clearing", ![s].df = df,
                            ![s].req = req, ![s].pre = store.rows]
    /\ ev' = Event("cleared", s, FALSE)
    /\ UNCHANGED <<faults, saveFailed>>

\* lines 344-353: Update Progress, up to sheet.clear()
UpdateProgress(s) ==
    /\ sess[s].pc = "ready"
    /\ \E role \in Roles : role \in ProgressRoles
    /\ \/ \E task \in SelectOptions(sess[s].df), p \in ProgressChoices :
            SaveClears(s, SetProgress(sess[s].df, task, p),
                       [op |-> "progress", task |-> task, val |-> p])
       \/ SaveRefused(s)
    /\ UNCHANGED <<cache, conn, runs, persisted>>

\* lines 375-378: Update Cost, up to sheet.clear()
UpdateCost(s) ==
    /\ sess[s].pc = "ready"
    /\ \E role \in Roles : role \in CostRoles
    /\ \/ \E task \in SelectOptions(sess[s].df), c \in CostChoices :
            SaveClears(s, SetCost(sess[s].df, task, c),
                       [op |-> "cost", task |-> task, val |-> c])
       \/ SaveRefused(s)
    /\ UNCHANGED <<cache, conn, runs, persisted>>

\* SavedRows as a row-level patch: the rows this run changed are written,
\* every other row is taken from the sheet as save_data found it
SavedRowsPatched(s) ==
    LET mine == UploadTable(sess[s].df)
    IN  IF Len(sess[s].pre) = Len(mine) /\ Len(sess[s].loaded) = Len(mine)
        THEN [i \in 1..Len(mine) |->
                IF sess[s].df[i] = sess[s].loaded[i] THEN sess[s].pre[i] ELSE mine[i]]
        ELSE mine

\* line 95: the rows session s's sheet.update() writes
SavedRows(s) == UploadTable(sess[s].df)

\* history: session s is saving a cost, and the sheet held, when its
\* save_data began, a progress for some task other than the one s had
\* loaded and still holds: another session's progress edit
Overwrites(s) ==
    /\ sess[s].req.op = "cost"
    /\ Len(sess[s].pre) = Len(sess[s].loaded)
    /\ Len(sess[s].df) = Len(sess[s].loaded)
    /\ \E i \in 1..Len(sess[s].loaded) :
        /\ ParseRow(sess[s].pre[i]).PROGRESS_NUM # sess[s].loaded[i].PROGRESS_NUM
        /\ sess[s].df[i].PROGRESS_NUM = sess[s].loaded[i].PROGRESS_NUM

\* line 95 and lines 354-356 / 379-381: sheet.update() returns, save_data
\* returns True, the cache is cleared and the script reruns
SheetUpdate(s) ==
    /\ sess[s].pc = "clearing"
    /\ store' = [hdr |-> TRUE, rows |-> SavedRows(s)]
    /\ cache' = CacheAfterSave
    /\ sess' = [sess EXCEPT ![s] = [IdleSession EXCEPT !.pc = "rerun"]]
    /\ ev' = [Event("saved", s, FALSE) EXCEPT !.lost = Overwrites(s)]
    /\ persisted' = SavedRows(s)
    /\ saveFailed' = FALSE
    /\ UNCHANGED <<conn, runs, faults>>

\* line 95 raises: save_data returns False after the sheet was cleared
SheetUpdateFails(s) ==
    /\ sess[s].pc = "clearing"
    /\ faults < MaxFaults
    /\ faults' = faults + 1
    /\ sess' = [sess EXCEPT ![s] = IdleSession]
    /\ ev' = Event("save_failed", s, FALSE)
    /\ saveFailed' = TRUE
    /\ UNCHANGED <<store, cache, conn, runs, persisted>>

\* time passes: the cached value ages (ages beyond the TTL are alike)
Tick ==
    /\ cache.valid
    /\ cache.age < TTL
    /\ cache' = [cache EXCEPT !.age = IF @ + TickStep > TTL THEN TTL ELSE @ + TickStep]
    /\ ev' = Quiet
    /\ UNCHANGED <<store, conn, sess, runs, faults, persisted, saveFailed>>

Next ==
    \/ \E s \in Sessions : Refresh(s)
    \/ \E s \in Sessions : Sidebar(s)
    \/ \E s \in Sessions : Main(s)
    \/ \E s \in Sessions : Render(s)
    \/ \E s \in Sessions : UpdateProgress(s)
    \/ \E s \in Sessions : UpdateCost(s)
    \/ \E s \in Sessions : SheetUpdate(s)
    \/ \E s \in Sessions : SheetUpdateFails(s)
    \/ Tick

Spec == Init /\ [][Next]_vars

TypeOK ==
    /\ store.hdr \in BOOLEAN
    /\ cache.valid \in BOOLEAN
    /\ cache.age \in 0..TTL
    /\ conn \in {"unset", "ok", "none"}
    /\ runs \in 0..MaxRuns
    /\ faults \in 0..MaxFaults
    /\ \A s \in Sessions : sess[s].pc \in {"idle", "rerun", "main", "ready", "clearing"}


(***************************************************************************)
(* What a run shows: key metrics (lines 279-301), the progress chart       *)
(* (line 170), the weekly report (lines 410-433).                          *)
(***************************************************************************)
RECURSIVE GCD(_, _)
GCD(a, b) == IF b = 0 THEN a ELSE GCD(b, a % b)

\* a float that is the quotient a / b, in lowest terms
Frac(a, b) == LET g == GCD(a, b) IN [k |-> "frac", num |-> a \div g, den |-> b \div g]

\* the literal 0 of lines 283 and 288
Zero == [k |-> "frac", num |-> 0, den |-> 1]

RECURSIVE SumProgress(_)
SumProgress(g) ==
    IF Len(g) = 0 THEN 0 ELSE Head(g).PROGRESS_NUM.v + SumProgress(Tail(g))

\* Series.mean(): NaN entries are skipped, and the mean of nothing is NaN
MeanSkipNa(g) ==
    LET Keep(r) == r.PROGRESS_NUM.k = "num"
        vals == SelectRows(g, Keep)
    IN  IF Len(vals) = 0 THEN NaN ELSE Frac(SumProgress(vals), Len(vals))

\* lines 283 and 288
MetricProgress(g) == IF Len(g) > 0 THEN MeanSkipNa(g) ELSE Zero

\* lines 416 and 423
ReportProgress(g) == MeanSkipNa(g)

\* line 170: one bar per project that has rows
ChartProgress(df) == [p \in Column(df, "PROJECT") |-> MeanSkipNa(ByProject(df, p))]

\* line 299: the "Critical Tasks" metric
CriticalCount(df) ==
    LET Keep(r) == r.PRIORITY \in {"Critical", "High"} IN Len(SelectRows(df, Keep))

\* line 431: the report's "Critical Tasks" section
CriticalPending(df) ==
    LET Keep(r) == r.PRIORITY \in {"Critical", "High"} /\ r.STATUS # "Complete"
    IN  SelectRows(df, Keep)

\* lines 279-301 and 312: the run has filtered its frame and shows the
\* metrics and the chart
KeyMetrics(s) ==
    /\ sess[s].pc = "ready"
    /\ ev.op = "view"
    /\ ev' = [op |-> "metrics", s |-> s, hit |-> FALSE, lost |-> FALSE,
              v5 |-> MetricProgress(ByProject(sess[s].df, "Villa 5")),
              v6 |-> MetricProgress(ByProject(sess[s].df, "Villa 6")),
              critical |-> CriticalCount(sess[s].df),
              chart |-> ChartProgress(sess[s].df)]
    /\ UNCHANGED <<store, cache, conn, sess, runs, faults, persisted, saveFailed>>

\* lines 407-433: the Generate Report button
WeeklyReport(s) ==
    /\ sess[s].pc = "ready"
    /\ ev.op = "metrics"
    /\ \E role \in Roles : role \in {"Project Manager", "Assistant"}
    /\ ev' = [op |-> "report", s |-> s, hit |-> FALSE, lost |-> FALSE,
              v5 |-> ReportProgress(ByProject(sess[s].df, "Villa 5")),
              v6 |-> ReportProgress(ByProject(sess[s].df, "Villa 6")),
              critical |-> CriticalPending(sess[s].df),
              chart |-> ChartProgress(sess[s].df)]
    /\ UNCHANGED <<store, cache, conn, sess, runs, faults, persisted, saveFailed>>

(***************************************************************************)
(* One user alone: the same script run, with every value the sidebar       *)
(* widgets can return and with what the run shows.                         *)
(***************************************************************************)
SingleInit ==
    /\ store \in {[hdr |-> TRUE, rows |-> r] : r \in SingleSheets}
    /\ cache = ClearedCache
    /\ conn = "unset"
    /\ sess = [s \in Sessions |-> IdleSession]
    /\ runs = 0
    /\ faults = 0
    /\ persisted = store.rows
    /\ saveFailed = FALSE
    /\ ev = Quiet

\* lines 218-258 with any choice of the three filter widgets
SidebarAny(s) ==
    /\ sess[s].pc \in {"idle", "rerun"}
    /\ runs < MaxRuns
    /\ runs' = runs + 1
    /\ \E r \in Loadable :
        /\ LoadData(r)
        /\ \E f \in (IF Len(r) = 0 THEN {NoFilter} ELSE AllFilterChoices(r)) :
            sess' = [sess EXCEPT ![s] = [IdleSession EXCEPT !.pc = "main", !.filter = f,
                                                            !.lf = ConnectionError]]
    /\ ev' = Quiet
    /\ UNCHANGED <<store, persisted, saveFailed>>

SingleNext ==
    \/ SidebarAny(User)
    \/ Main(User)
    \/ KeyMetrics(User)
    \/ WeeklyReport(User)
    \/ UpdateProgress(User)
    \/ UpdateCost(User)
    \/ SheetUpdate(User)
    \/ SheetUpdateFails(User)

SingleSpec == SingleInit /\ [][SingleNext]_vars


(***************************************************************************)
(* Steps, as seen from outside the run.                                    *)
(***************************************************************************)
\* session s makes one of its two load_data() calls in this step
SidebarStep(s) == sess[s].pc \in {"idle", "rerun"} /\ sess'[s].pc = "main"
MainStep(s) == sess[s].pc = "main" /\ sess'[s].pc # "main"
GetStep(s) == SidebarStep(s) \/ MainStep(s)

\* session s's save_data returns True in this step
SavedStep(s) == sess[s].pc = "clearing" /\ sess'[s].pc = "rerun"

\* session s presses Refresh in this step
RefreshStep(s) == sess[s].pc = "idle" /\ sess'[s].pc = "rerun"

\* the frame the run of s computes from its own load and its own request
Mutated(s) ==
    LET view == ApplyFilters(sess[s].loaded, sess[s].filter)
        req == sess[s].req
    IN  IF req.op = "progress" THEN SetProgress(view, req.task, req.val)
        ELSE SetCost(view, req.task, req.val)

TaskIds(rows) == {rows[i].TASK_ID : i \in 1..Len(rows)}

(***************************************************************************)
(* Claims.                                                                 *)
(***************************************************************************)

\* C1: after a successful update the sheet holds every task it held when
\* save_data began, and the frame handed to save_data is the whole
\* collection line 264 loaded, never a filtered view.
C1_FullCollectionPersisted ==
    [][\A s \in Sessions :
        SavedStep(s) =>
            /\ Len(sess[s].df) = Len(sess[s].loaded)
            /\ TaskIds(sess[s].pre) \subseteq TaskIds(store'.rows)
      ]_vars

\* C2: Update Progress with p re-derives the status of the selected task:
\* Complete for 100, In Progress for 0 < p < 100, the old status for 0; and
\* the derived status is what the save writes.
C2_StatusRederived ==
    [][\A s \in Sessions :
        /\ (sess[s].pc = "ready" /\ sess'[s].pc = "clearing" /\ sess'[s].req.op = "progress") =>
            LET old == sess[s].df
                new == sess'[s].df
                p == sess'[s].req.val
            IN  /\ Len(new) = Len(old)
                /\ \A i \in 1..Len(old) :
                    old[i].TASK_ID = sess'[s].req.task =>
                        /\ p = 100 => new[i].STATUS = "Complete"
                        /\ (p > 0 /\ p < 100) => new[i].STATUS = "In Progress"
                        /\ p = 0 => new[i].STATUS = old[i].STATUS
        /\ SavedStep(s) =>
            /\ Len(store'.rows) = Len(sess[s].df)
            /\ \A i \in 1..Len(sess[s].df) : store'.rows[i].STATUS = sess[s].df[i].STATUS
      ]_vars

\* C2 witness: progress 0 was applied to a Complete task, which stays Complete
C2_Witness ==
    \E s \in Sessions :
        /\ sess[s].pc = "clearing"
        /\ sess[s].req.op = "progress"
        /\ sess[s].req.val = 0
        /\ \E i \in 1..Len(sess[s].df) :
            /\ sess[s].df[i].TASK_ID = sess[s].req.task
            /\ sess[s].df[i].STATUS = "Complete"
            /\ sess[s].df[i].PROGRESS_NUM = Num(0)

\* C3: when a session's save returns, the sheet is exactly the frame that
\* session computed from its own load and its own request, whatever the
\* sheet held when the save began: nothing another session saved in between
\* survives.
C3_LastFullWriteWins ==
    [][\A s \in Sessions :
        SavedStep(s) => store' = [hdr |-> TRUE, rows |-> UploadTable(Mutated(s))]
      ]_vars

\* C3 witness: a session's save of a cost has returned, and it overwrote
\* another session's progress edit: the sheet holds what the saver wrote
C3_Witness ==
    /\ ev.op = "saved"
    /\ ev.lost
    /\ store = [hdr |-> TRUE, rows |-> persisted]

\* C4: a save that returns True and a Refresh both leave the cache without
\* an entry, and a load_data() that finds no entry reads the sheet, caches
\* what it read with age 0 and hands it to the run.
C4_InvalidateThenReload ==
    [][\A s \in Sessions :
        /\ (SavedStep(s) \/ RefreshStep(s)) => ~cache'.valid
        /\ (GetStep(s) /\ ~cache.valid) =>
            /\ cache'.valid
            /\ cache'.age = 0
            /\ (faults' = faults /\ conn' = "ok") => cache'.val = ParseTable(store.rows)
            /\ sess'[s].pc = "ready" => sess'[s].loaded = cache'.val
      ]_vars

\* C4 witness: the cache holds the collection a save wrote, loaded after it
C4_Witness ==
    /\ cache.valid
    /\ cache.age = 0
    /\ Len(cache.val) > 0
    /\ cache.val = ParseTable(persisted)
    /\ store.rows = persisted
    /\ \A r \in Sheets : persisted # r

\* C5: load_data() with an entry younger than 300 s returns that entry and
\* touches neither the sheet nor the entry; with an entry of age 300 s or
\* more it reads the sheet and the new entry's age starts at 0.
C5_TtlGet ==
    [][\A s \in Sessions :
        GetStep(s) /\ cache.valid =>
            IF cache.age < TTL
            THEN /\ cache' = cache
                 /\ conn' = conn
                 /\ faults' = faults
                 /\ sess'[s].pc = "ready" => sess'[s].loaded = cache.val
                 /\ MainStep(s) => (sess'[s].pc = "ready" <=> (Len(cache.val) > 0 /\ sess[s].filter.def))
            ELSE /\ cache'.valid
                 /\ cache'.age = 0
                 /\ (faults' = faults /\ conn' = "ok") => cache'.val = ParseTable(store.rows)
      ]_vars

\* C5 witness: line 264 was served from an entry of age strictly between 0
\* and the TTL
C5_Witness ==
    /\ ev.op = "view"
    /\ ev.hit
    /\ cache.age > 0
    /\ cache.age < TTL
    /\ sess[ev.s].loaded = cache.val

\* C6: once a save has failed, a load_data() served from the cache returns
\* the collection last written successfully.
C6_FailedSaveKeepsPersisted ==
    (saveFailed /\ ev.hit /\ ev.op \in {"view", "stop"}) =>
        (IF ev.op = "view" THEN sess[ev.s].loaded ELSE EmptyFrame) = ParseTable(persisted)

\* C7: no save is begun for a task that is not in the collection, the
\* empty view's "no task" included.
C7_AbsentTaskNoChange ==
    \A s \in Sessions :
        sess[s].pc = "clearing" => sess[s].req.task \in TaskIds(sess[s].loaded)

\* C8: when save_data returns, True or False, and no other save is under
\* way, the sheet holds a header and the rows of the last save that
\* returned True (this one, when it returned True).
C8_SaveAtomic ==
    (ev.op \in {"saved", "save_failed"} /\ \A t \in Sessions : sess[t].pc # "clearing") =>
        store = [hdr |-> TRUE, rows |-> persisted]

\* C9: a load_data() that reads the sheet without a connection error
\* returns one row per sheet row; a row whose PROGRESS is malformed gets
\* NaN, every other row its parsed value.
C9_MalformedProgressTolerated ==
    [][\A s \in Sessions :
        (GetStep(s) /\ ~(cache.valid /\ cache.age < TTL) /\ faults' = faults /\ conn' = "ok") =>
            /\ Len(cache'.val) = Len(store.rows)
            /\ \A i \in 1..Len(store.rows) :
                LET x == ParseFloat(RStripPct(store.rows[i].PROGRESS))
                IN  cache'.val[i].PROGRESS_NUM = (IF x = ValueError THEN NaN ELSE x)
      ]_vars

\* C10: a run whose sidebar load_data() ran into a connection error ends at
\* st.stop(): no exception, no mutation, no save.
C10_FailedLoadIsNoData ==
    [][\A s \in Sessions :
        (sess[s].pc = "main" /\ sess[s].lf /\ sess'[s] # sess[s]) =>
            /\ ev' = Event("stop", s, ev'.hit)
            /\ sess'[s].pc = "idle"
            /\ store' = store
      ]_vars

\* C11: Update Cost with c touches only ACTUAL_COST: when its save has
\* returned, a fresh load of the sheet gives, for the selected task, cost c
\* and the progress value, status, dates and other fields the run had before
\* the update (the view of its own load).
C11_CostTouchesOnlyCost ==
    [][\A s \in Sessions :
        (SavedStep(s) /\ sess[s].req.op = "cost") =>
            LET view == ApplyFilters(sess[s].loaded, sess[s].filter)
                fresh == ParseTable(store'.rows)
            IN  /\ Len(fresh) = Len(view)
                /\ \A i \in 1..Len(view) :
                    view[i].TASK_ID = sess[s].req.task =>
                        /\ fresh[i].ACTUAL_COST = sess[s].req.val
                        /\ fresh[i].PROGRESS_NUM = view[i].PROGRESS_NUM
                        /\ fresh[i].STATUS = view[i].STATUS
                        /\ fresh[i].START_DATE = view[i].START_DATE
                        /\ fresh[i].START = view[i].START
                        /\ fresh[i].TASK_ID = view[i].TASK_ID
                        /\ fresh[i].PROJECT = view[i].PROJECT
                        /\ fresh[i].TYPE = view[i].TYPE
                        /\ fresh[i].PRIORITY = view[i].PRIORITY
      ]_vars

\* C11 witness: a cost update of the Complete task T2 was saved: the sheet
\* holds the new cost, the old status and the old progress, reformatted
C11_Witness ==
    /\ ev.op = "saved"
    /\ \E i \in 1..Len(store.rows) :
        /\ store.rows[i].TASK_ID = "T2"
        /\ store.rows[i].ACTUAL_COST = 5000
        /\ store.rows[i].STATUS = "Complete"
        /\ store.rows[i].PROGRESS = <<"1", "0", "0", ".", "0", "%">>

\* C13: in every frame the program holds (the cached one, the one a run
\* loaded, the one it filtered and mutated) each row's PROGRESS_NUM is the
\* number its PROGRESS text parses to.
C13_ProgressRepresentationsAgree ==
    \A s \in Sessions :
        \A d \in {cache.val, sess[s].loaded, sess[s].df} :
            \A i \in 1..Len(d) :
                d[i].PROGRESS_NUM = ParseFloat(RStripPct(d[i].PROGRESS))

\* C13 witness: a run has set a task's progress to 100, away from the text
\* the sheet was loaded with
C13_Witness ==
    \E s \in Sessions :
        /\ sess[s].pc = "clearing"
        /\ sess[s].req.op = "progress"
        /\ \E i \in 1..Len(sess[s].df) :
            /\ sess[s].df[i].TASK_ID = "T1"
            /\ sess[s].df[i].PROGRESS = P100
            /\ sess[s].df[i].PROGRESS_NUM = Num(100)
            /\ sess[s].loaded[i].PROGRESS = P50

\* C16: loading what save_data wrote gives, row by row, the progress value
\* and the start date of the frame that was saved.
C16_RoundTrip ==
    [][\A s \in Sessions :
        SavedStep(s) =>
            LET fresh == ParseTable(store'.rows)
            IN  /\ Len(fresh) = Len(sess[s].df)
                /\ \A i \in 1..Len(fresh) :
                    /\ fresh[i].PROGRESS_NUM = sess[s].df[i].PROGRESS_NUM
                    /\ fresh[i].START = sess[s].df[i].START
      ]_vars

\* C16 witness: the saved sheet holds a progress text in save_data's format
\* and a start date that is no calendar date, and parses to a frame
C16_Witness ==
    /\ ev.op = "saved"
    /\ Len(ParseTable(store.rows)) > 0
    /\ \E i \in 1..Len(store.rows) :
        /\ store.rows[i].PROGRESS = <<"1", "0", "0", ".", "0", "%">>
        /\ ParseDate(store.rows[i].START_DATE) = NaT

\* C18: when the sidebar's load_data() of a run failed on the sheet, the
\* client is there and the sheet is whole, the run's next load_data()
\* returns the sheet's rows.
C18_FailedLoadNotMemoized ==
    [][\A s \in Sessions :
        (MainStep(s) /\ sess[s].lf /\ conn = "ok" /\ faults' = faults /\ store.hdr
                     /\ Len(ParseTable(store.rows)) > 0) =>
            /\ cache'.val = ParseTable(store.rows)
            /\ ev'.op # "stop"
      ]_vars

\* C19: the second load_data() of a run is served from the entry the first
\* one left: it never reads the sheet again, and the run's filter values
\* are defined whenever its frame has rows.
C19_SingleSnapshot ==
    [][\A s \in Sessions :
        MainStep(s) => (ev'.hit /\ cache' = cache /\ ev'.op # "name_error")
      ]_vars

\* C20: a load_data() that reads the sheet while another session is inside
\* save_data gets the rows the sheet had when that save began or the rows
\* the save writes, and that is what it caches.
C20_NoTornRead ==
    [][\A s \in Sessions, t \in Sessions :
        (GetStep(s) /\ ~(cache.valid /\ cache.age < TTL) /\ faults' = faults /\ conn' = "ok"
                    /\ t # s /\ sess[t].pc = "clearing") =>
            cache'.val \in {ParseTable(sess[t].pre), ParseTable(SavedRows(t))}
      ]_vars


\* C12: an update changes one row only: of the rows of the view that
\* carry the selected TASK_ID the first is modified, every other row of the
\* view is left as it was.
C12_OnlyFirstMatchUpdated ==
    [][\A s \in Sessions :
        (sess[s].pc = "ready" /\ sess'[s].pc = "clearing") =>
            LET old == sess[s].df
                new == sess'[s].df
                task == sess'[s].req.task
            IN  /\ Len(new) = Len(old)
                /\ \A i \in 1..Len(old) :
                    (\E j \in 1..(i - 1) : old[j].TASK_ID = task) => new[i] = old[i]
      ]_vars

\* C14: the "Critical Tasks" metric counts, and the report's "Critical
\* Tasks" section lists, the rows of the view whose priority is Critical or
\* High and whose status is not Complete, in the view's order.
C14_CriticalPendingEverywhere ==
    ev.op \in {"metrics", "report"} =>
        LET df == sess[ev.s].df
            Keep(r) == r.PRIORITY \in {"Critical", "High"} /\ r.STATUS # "Complete"
            expected == SelectRows(df, Keep)
        IN  IF ev.op = "report" THEN ev.critical = expected
            ELSE ev.critical = Len(expected)

\* C15: each place that shows a project's mean progress (metric, chart,
\* report) shows the mean of the project's non-NaN progress values, and 0
\* for a project that has no task in the view.
C15_MeanProgressZeroWhenEmpty ==
    ev.op \in {"metrics", "report"} =>
        LET df == sess[ev.s].df
            expected(p) == IF Len(ByProject(df, p)) = 0 THEN Zero
                           ELSE MeanSkipNa(ByProject(df, p))
        IN  /\ ev.v5 = expected("Villa 5")
            /\ ev.v6 = expected("Villa 6")
            /\ \A p \in DOMAIN ev.chart : ev.chart[p] = expected(p)

\* C17: the view lines 270-274 compute (project, then type, then status)
\* is the view the filters give when status is applied first and project
\* after it, and the cached frame is the unfiltered frame the run loaded.
C17_FilterOrderIndependent ==
    [][\A s \in Sessions :
        (MainStep(s) /\ sess'[s].pc = "ready") =>
            LET f == sess[s].filter
                all == sess'[s].loaded
                d1 == ByStatus(all, f.statuses)
                d2 == IF f.project # "All" THEN ByProject(d1, f.project) ELSE d1
            IN  /\ sess'[s].df = ByType(d2, f.types)
                /\ cache'.val = all
                /\ cache.valid /\ cache.age < TTL => cache' = cache
      ]_vars

\* C17 witness: a view where the project filter and the status filter each
\* remove a row the other keeps
C17_Witness ==
    /\ sess[User].pc = "ready"
    /\ sess[User].filter.project # "All"
    /\ Len(sess[User].df) > 0
    /\ Len(ByProject(sess[User].loaded, sess[User].filter.project)) > Len(sess[User].df)
    /\ Len(ByStatus(sess[User].loaded, sess[User].filter.statuses)) > Len(sess[User].df)
    /\ sess[User].filter.types = Column(sess[User].loaded, "TYPE")

=============================================================================
